---- MODULE Spec2Model ----
(***************************************************************************)
(* Shape-level model of the residual network assembly (Models/ResNet.py)   *)
(* and of the training loop (Models/BaseModel.py).                         *)
(*                                                                         *)
(* A tensor is modelled by its shape (a sequence of dimensions) or by the  *)
(* error the numeric library raises; a layer is modelled by the shape      *)
(* function of the layer the source configures.  A block, a projection, a  *)
(* stage and the network are records of the values their constructors      *)
(* store.                                                                  *)
(***************************************************************************)
EXTENDS Integers, Sequences, FiniteSets

\* ------------------------------------------------------------- bounds
MaxBlocks == 2
MaxBatch == 2
MaxClasses == 2
MaxSmallSide == 4
MaxLargeSide == 33
MaxEpochs == 2
MaxTrainBatches == 2
MaxValBatches == 2

\* -------------------------------------------------------------- state
VARIABLES
    netpc,        \* position in ResNet.__init__: new, layers, built, failed
    args,         \* arguments of ResNet.__init__
    in_channels,  \* self.in_channels
    stages,       \* layer_64, layer_128, layer_256, layer_512 built so far
    fc,           \* self.fc
    raised,       \* exception raised by the constructor
    call,         \* arguments of the latest create_residual_layer call
    layer,        \* the stage the latest create_residual_layer call returned
    xin,          \* shape of test_tensor, <<>> before it is made
    out,          \* result of the latest forward
    merges        \* operands of the merges of the latest forward

netvars == <<netpc, args, in_channels, stages, fc, raised, call, layer, xin, out, merges>>

VARIABLES
    blk,    \* a residual block constructed on its own
    bx,     \* shape of the latest input of the block
    bout    \* result of the latest call of the block

blockvars == <<blk, bx, bout>>

VARIABLES
    tpc,              \* position in train_model
    tcfg,             \* num_epochs, len(train_loader), len(validation_loader), scheduler
    epoch,            \* epoch of the for loop (0-based); num_epochs once it is exhausted
    consumed,         \* training batches the loop has taken in this epoch
    vconsumed,        \* validation batches the loop has taken in this epoch
    batch_indx,       \* batch_indx, -1 while unbound
    vbatch_indx,      \* vbatch_indx, -1 while unbound
    training,         \* self.training of the module (network, block, or train_model's model)
    grads,            \* gradients: stale, zero (zero_grad), fresh (backward), applied (step)
    opt_steps,        \* optimizer.step() calls so far
    backwards,        \* loss.backward() calls so far
    sched_steps,      \* scheduler.step() calls so far
    metric,           \* predictions the metric has accumulated since its last reset
    train_f1_score,   \* the predictions train_f1_score was computed from
    valid_f1_score,   \* the predictions valid_f1_score was computed from
    traised           \* exception raised by train_model

trainvars == <<tpc, tcfg, epoch, consumed, vconsumed, batch_indx, vbatch_indx,
               training, grads, opt_steps, backwards, sched_steps, metric,
               train_f1_score, valid_f1_score, traised>>

vars == <<netvars, blockvars, trainvars>>

\* ------------------------------------------------------------ tensors
NoErr == "none"

Tensor(s) == [err |-> NoErr, shape |-> s]

Failed(e) == [err |-> e, shape |-> <<>>]

\* Output length of a convolution or pooling window along one axis.
WindowOut(h, k, s, p) == ((h + 2 * p - k) \div s) + 1

Conv2d(t, cin, cout, k, s, p) ==
    IF t.err # NoErr THEN t
    ELSE IF Len(t.shape) # 4 \/ t.shape[2] # cin THEN Failed("ChannelMismatch")
    ELSE IF t.shape[3] + 2 * p < k \/ t.shape[4] + 2 * p < k
         THEN Failed("KernelTooLarge")
    ELSE Tensor(<<t.shape[1], cout,
                  WindowOut(t.shape[3], k, s, p),
                  WindowOut(t.shape[4], k, s, p)>>)

\* In training mode batch normalization refuses a single value per channel.
BatchNorm2d(t, c) ==
    IF t.err # NoErr THEN t
    ELSE IF Len(t.shape) # 4 \/ t.shape[2] # c THEN Failed("ChannelMismatch")
    ELSE IF training /\ t.shape[1] * t.shape[3] * t.shape[4] = 1
         THEN Failed("ValueError")
    ELSE t

ReLU(t) == t

MaxPool2d(t, k, s, p) ==
    IF t.err # NoErr THEN t
    ELSE Tensor(<<t.shape[1], t.shape[2],
                  WindowOut(t.shape[3], k, s, p),
                  WindowOut(t.shape[4], k, s, p)>>)

AdaptiveAvgPool2d(t) ==
    IF t.err # NoErr THEN t
    ELSE Tensor(<<t.shape[1], t.shape[2], 1, 1>>)

IsNotOne(d) == d # 1

\* x.squeeze(): every axis of length 1 is removed.
Squeeze(t) ==
    IF t.err # NoErr THEN t
    ELSE Tensor(SelectSeq(t.shape, IsNotOne))

Linear(t, fin, fout) ==
    IF t.err # NoErr THEN t
    ELSE IF Len(t.shape) = 0 \/ t.shape[Len(t.shape)] # fin
         THEN Failed("ShapeMismatch")
    ELSE Tensor([t.shape EXCEPT ![Len(t.shape)] = fout])

\* y can be broadcast to the shape of x (an in-place add keeps x's shape).
BroadcastsTo(y, x) ==
    /\ Len(y) = Len(x)
    /\ \A i \in 1..Len(x) : y[i] = x[i] \/ y[i] = 1

\* x += identity
InplaceAdd(x, identity) ==
    IF x.err # NoErr THEN x
    ELSE IF identity.err # NoErr THEN identity
    ELSE IF BroadcastsTo(identity.shape, x.shape) THEN x
    ELSE Failed("ShapeMismatch")

\* ------------------------------------------------------------- blocks
Deep == "ResNetDeepBlock"
Basic == "ResNetBlock"
\* A block class that is neither of the two, with ResNetBlock's signature.
Custom == "CustomBlock"

NoProj == [present |-> FALSE, cin |-> 0, cout |-> 0, stride |-> 0]

\* nn.Sequential(nn.Conv2d(cin, cout, kernel_size=1, stride), nn.BatchNorm2d(cout))
Projection(cin, cout, stride) ==
    [present |-> TRUE, cin |-> cin, cout |-> cout, stride |-> stride]

Expansion(kind) == IF kind = Deep THEN 4 ELSE 1

\* block(in_channels, out_channels, ...): the values the constructor stores.
Block(kind, cin, cout, stride, proj) ==
    [kind |-> kind, cin |-> cin, cout |-> cout, stride |-> stride, proj |-> proj]

\* Channel count of a block's main path output.
BlockOutChannels(b) == b.cout * Expansion(b.kind)

ApplyProjection(p, t) ==
    BatchNorm2d(Conv2d(t, p.cin, p.cout, 1, p.stride, 0), p.cout)

\* The identity path at the merge.
BlockIdentity(b, x) ==
    IF b.proj.present THEN ApplyProjection(b.proj, x) ELSE x

DeepMain(b, x) ==
    LET x1 == ReLU(BatchNorm2d(Conv2d(x, b.cin, b.cout, 1, 1, 0), b.cout))
        x2 == ReLU(BatchNorm2d(Conv2d(x1, b.cout, b.cout, 3, b.stride, 1), b.cout))
    IN  BatchNorm2d(Conv2d(x2, b.cout, b.cout * 4, 1, 1, 0), b.cout * 4)

BasicMain(b, x) ==
    LET x1 == ReLU(BatchNorm2d(Conv2d(x, b.cin, b.cout, 3, b.stride, 1), b.cout))
    IN  BatchNorm2d(Conv2d(x1, b.cout, b.cout, 3, 1, 1), b.cout)

\* The main path at the merge.
BlockMain(b, x) == IF b.kind = Deep THEN DeepMain(b, x) ELSE BasicMain(b, x)

BlockForward(b, x) ==
    LET main == BlockMain(b, x)
        identity == BlockIdentity(b, x)
    IN  ReLU(InplaceAdd(main, identity))

\* DeepNeedsDownsample with the channel test dropped.
DeepNeedsDownsampleStrideOnly(self_in, out_channels, stride) == stride # 1

\* ------------------------------------------------------ stage builder
\* The deep branch's test for a projection on the first block.
DeepNeedsDownsample(self_in, out_channels, stride) ==
    stride # 1 \/ self_in # out_channels * 4

\* The deep branch's update of self.in_channels.
DeepNextInChannels(out_channels) == out_channels * 4

\* BasicInChannels without the halving.
BasicInChannelsSame(out_channels) == out_channels

\* The basic branch's local in_channels.
BasicInChannels(out_channels) ==
    IF out_channels # 64 THEN out_channels \div 2 ELSE out_channels

\* The basic branch's test for a projection on the first block.
BasicNeedsDownscale(stride) == stride # 1

\* FurtherBlocks with one block too many.
FurtherBlocksOneMore(num_residual_blocks) == 1..num_residual_blocks

\* range(num_residual_blocks - 1)
FurtherBlocks(num_residual_blocks) == 1..(num_residual_blocks - 1)

DeepLayer(self_in, block, out_channels, num_residual_blocks, stride) ==
    LET identity_downsample ==
            IF DeepNeedsDownsample(self_in, out_channels, stride)
            THEN Projection(self_in, out_channels * 4, stride)
            ELSE NoProj
        first == Block(block, self_in, out_channels, stride, identity_downsample)
        next_in == DeepNextInChannels(out_channels)
    IN  [layers |-> <<first>> \o
                    [i \in FurtherBlocks(num_residual_blocks) |->
                        Block(block, next_in, out_channels, 1, NoProj)],
         in_channels |-> next_in]

BasicLayer(self_in, block, out_channels, num_residual_blocks, stride) ==
    LET local_in == BasicInChannels(out_channels)
        identity_downscale ==
            IF BasicNeedsDownscale(stride)
            THEN Projection(local_in, out_channels, stride)
            ELSE NoProj
        first == Block(block, local_in, out_channels, stride, identity_downscale)
    IN  [layers |-> <<first>> \o
                    [i \in FurtherBlocks(num_residual_blocks) |->
                        Block(block, out_channels, out_channels, 1, NoProj)],
         in_channels |-> self_in]

\* create_residual_layer: the stage it returns and self.in_channels after it.
CreateResidualLayer(self_in, block, out_channels, num_residual_blocks, stride, deep) ==
    IF deep
    THEN DeepLayer(self_in, block, out_channels, num_residual_blocks, stride)
    ELSE BasicLayer(self_in, block, out_channels, num_residual_blocks, stride)

\* deep=(block.__name__ == "ResNetDeepBlock")
IsDeep(block) == block = Deep

\* ------------------------------------------------------------ network
\* out_channels of layer_64, layer_128, layer_256, layer_512
StageWidths == <<64, 128, 256, 512>>

\* stride of the four create_residual_layer calls (the first is the default)
StageStrides == <<1, 2, 2, 2>>

\* FcInFeatures with the block class ignored.
FcInFeaturesBasicOnly(block) == 512

\* in_features of self.fc
FcInFeatures(block) == IF block = Deep THEN 512 * 4 ELSE 512

\* self.initial_layers
InitialLayers(net_in, x) ==
    ReLU(MaxPool2d(BatchNorm2d(Conv2d(x, net_in, 64, 7, 2, 3), 64), 3, 2, 1))

\* One pass of a tensor through the network: the running x and, for every
\* "x += identity" executed so far, its two operands.
Pass(x, ms) == [x |-> x, merges |-> ms]

\* block(x), recording the operands of its merge once both paths have run
BlockStep(b, st) ==
    IF st.x.err # NoErr THEN st
    ELSE LET main == BlockMain(b, st.x)
             identity == BlockIdentity(b, st.x)
         IN  IF main.err # NoErr THEN Pass(main, st.merges)
             ELSE IF identity.err # NoErr THEN Pass(identity, st.merges)
             ELSE Pass(ReLU(InplaceAdd(main, identity)),
                       Append(st.merges, [main |-> main, identity |-> identity]))

RECURSIVE RunBlocks(_, _)
\* nn.Sequential of blocks applied in order
RunBlocks(bs, st) ==
    IF bs = <<>> THEN st ELSE RunBlocks(Tail(bs), BlockStep(Head(bs), st))

\* x = x.squeeze() in forward
ForwardSqueeze(x) == Squeeze(x)

\* ResNet.forward: its result and the merges it went through
ResNetForward(net_in, layers4, linear, x) ==
    LET s0 == Pass(InitialLayers(net_in, x), <<>>)
        s1 == RunBlocks(layers4[1], s0)
        s2 == RunBlocks(layers4[2], s1)
        s3 == RunBlocks(layers4[3], s2)
        s4 == RunBlocks(layers4[4], s3)
        x5 == AdaptiveAvgPool2d(s4.x)
        x6 == ForwardSqueeze(x5)
    IN  Pass(Linear(x6, linear.fin, linear.fout), s4.merges)

\* ------------------------------------------------------------- inputs
NoArgs == [in_channels |-> 0, num_classes |-> 0, layers |-> <<>>, block |-> "none"]
NoCall == [block |-> "none", out_channels |-> 0, num_residual_blocks |-> 0,
           stride |-> 0, deep |-> FALSE, in_before |-> 0]
NoFc == [fin |-> 0, fout |-> 0]
NoTensor == Failed("unset")

Sides == (1..MaxSmallSide) \cup (31..MaxLargeSide)
InputChannels == {1, 3}
BlockCounts == 0..MaxBlocks

\* layers arguments: lists of four counts, and one list shorter, one longer
LayersArgs == [1..4 -> BlockCounts] \cup {[i \in 1..3 |-> 1], [i \in 1..5 |-> 1]}

AllArgs ==
    [in_channels : InputChannels, num_classes : 1..MaxClasses,
     layers : LayersArgs, block : {Basic, Deep, Custom}]

SupportedArgs ==
    [in_channels : {3}, num_classes : 1..MaxClasses,
     layers : [1..4 -> 1..MaxBlocks], block : {Basic, Deep}]

NetInit ==
    /\ netpc = "new"
    /\ args = NoArgs
    /\ in_channels = 0
    /\ stages = <<>>
    /\ fc = NoFc
    /\ raised = NoErr
    /\ call = NoCall
    /\ layer = <<>>
    /\ xin = <<>>
    /\ out = NoTensor
    /\ merges = <<>>

\* ResNet.__init__ up to the first create_residual_layer call
Construct(a) ==
    /\ netpc = "new"
    /\ args' = a
    /\ in_channels' = 64
    /\ netpc' = "layers"
    /\ UNCHANGED <<stages, fc, raised, call, layer, xin, out, merges>>
    /\ UNCHANGED <<blockvars, trainvars>>

\* The next of the four self.create_residual_layer(...) calls of __init__
BuildLayer ==
    /\ netpc = "layers"
    /\ Len(stages) < 4
    /\ LET k == Len(stages) + 1 IN
       IF k > Len(args.layers)
       THEN /\ netpc' = "failed"
            /\ raised' = "IndexError"
            /\ UNCHANGED <<in_channels, stages, call, layer>>
       ELSE LET r == CreateResidualLayer(in_channels, args.block, StageWidths[k],
                                         args.layers[k], StageStrides[k],
                                         IsDeep(args.block))
            IN  /\ stages' = Append(stages, r.layers)
                /\ layer' = r.layers
                /\ in_channels' = r.in_channels
                /\ call' = [block |-> args.block, out_channels |-> StageWidths[k],
                            num_residual_blocks |-> args.layers[k],
                            stride |-> StageStrides[k], deep |-> IsDeep(args.block),
                            in_before |-> in_channels]
                /\ UNCHANGED <<netpc, raised>>
    /\ UNCHANGED <<args, fc, xin, out, merges>>
    /\ UNCHANGED <<blockvars, trainvars>>

\* self.global_avg_pool and self.fc: the end of __init__
BuildFc ==
    /\ netpc = "layers"
    /\ Len(stages) = 4
    /\ fc' = [fin |-> FcInFeatures(args.block), fout |-> args.num_classes]
    /\ netpc' = "built"
    /\ UNCHANGED <<args, in_channels, stages, raised, call, layer, xin, out, merges>>
    /\ UNCHANGED <<blockvars, trainvars>>

\* test_tensor = torch.rand(size=(n, in_channels, h, w))
TestTensor(n, h, w) ==
    /\ netpc = "built"
    /\ xin = <<>>
    /\ xin' = <<n, args.in_channels, h, w>>
    /\ UNCHANGED <<netpc, args, in_channels, stages, fc, raised, call, layer, out, merges>>
    /\ UNCHANGED <<blockvars, trainvars>>

\* out = model(test_tensor)
Forward ==
    /\ netpc = "built"
    /\ xin # <<>>
    /\ out = NoTensor
    /\ LET r == ResNetForward(args.in_channels, stages, fc, Tensor(xin)) IN
       /\ out' = r.x
       /\ merges' = r.merges
    /\ UNCHANGED <<netpc, args, in_channels, stages, fc, raised, call, layer, xin>>
    /\ UNCHANGED <<blockvars, trainvars>>

\* self.create_residual_layer(...) called on a built network
CallCreateResidualLayer(out_channels, num_residual_blocks, stride) ==
    /\ netpc = "built"
    /\ LET block == args.block
           r == CreateResidualLayer(in_channels, block, out_channels,
                                    num_residual_blocks, stride, IsDeep(block))
       IN  /\ layer' = r.layers
           /\ in_channels' = r.in_channels
           /\ call' = [block |-> block, out_channels |-> out_channels,
                       num_residual_blocks |-> num_residual_blocks,
                       stride |-> stride, deep |-> IsDeep(block),
                       in_before |-> in_channels]
    /\ UNCHANGED <<netpc, args, stages, fc, raised, xin, out, merges>>
    /\ UNCHANGED <<blockvars, trainvars>>

\* model.train() / model.eval() on a constructed module
SetMode(mode) ==
    /\ netpc = "built" \/ blk.kind # "none"
    /\ training' = mode
    /\ UNCHANGED <<netvars, blockvars>>
    /\ UNCHANGED <<tpc, tcfg, epoch, consumed, vconsumed, batch_indx, vbatch_indx, grads,
                   opt_steps, backwards, sched_steps, metric, train_f1_score,
                   valid_f1_score, traised>>

\* ----------------------------------------------------- a single block
MaxBlockChannels == 3
MaxBlockStride == 2
MaxBlockSide == 3

NoBlock == Block("none", 0, 0, 0, NoProj)

BlockInit ==
    /\ blk = NoBlock
    /\ bx = <<>>
    /\ bout = NoTensor

\* ResNetBlock(...) or ResNetDeepBlock(...), with the projection the caller
\* passes: none, or the 1x1 convolution + normalization of the stage builder.
ConstructBlock(kind, cin, cout, stride, with_projection) ==
    /\ blk = NoBlock
    /\ blk' = Block(kind, cin, cout, stride,
                    IF with_projection
                    THEN Projection(cin, cout * Expansion(kind), stride)
                    ELSE NoProj)
    /\ UNCHANGED <<bx, bout>>
    /\ UNCHANGED <<netvars, trainvars>>

\* block(x) on a batch of shape (n, in_channels, h, w)
InvokeBlock(n, h, w) ==
    /\ blk # NoBlock
    /\ bx' = <<n, blk.cin, h, w>>
    /\ bout' = BlockForward(blk, Tensor(<<n, blk.cin, h, w>>))
    /\ UNCHANGED blk
    /\ UNCHANGED <<netvars, trainvars>>

\* ------------------------------------------------------- training loop
Unbound == -1

TrainConfigs ==
    [num_epochs : 0..MaxEpochs, len_train : 0..MaxTrainBatches,
     len_val : 0..MaxValBatches, scheduler : BOOLEAN]

Sample(e, phase, b) == [epoch |-> e, phase |-> phase, batch |-> b]

\* metric.update(out, labels)
MetricUpdate(m, sample) == m \cup {sample}

\* metric.compute()
MetricCompute(m) == m

\* TrainMetricReset with the reset left out.
TrainMetricKept(m) == m

\* metric.reset() after train_f1_score is computed
TrainMetricReset(m) == {}

\* metric.reset() after the epoch's report
ValidMetricReset(m) == {}

\* model.train()
ModelTrainMode == TRUE

\* model.eval()
ModelEvalMode == FALSE

TrainIdle ==
    /\ tpc = "idle"
    /\ tcfg = [num_epochs |-> 0, len_train |-> 0, len_val |-> 0, scheduler |-> FALSE]
    /\ epoch = 0
    /\ consumed = 0
    /\ vconsumed = 0
    /\ batch_indx = Unbound
    /\ vbatch_indx = Unbound
    /\ training = TRUE
    /\ grads = "stale"
    /\ opt_steps = 0
    /\ backwards = 0
    /\ sched_steps = 0
    /\ metric = {}
    /\ train_f1_score = {}
    /\ valid_f1_score = {}
    /\ traised = NoErr

\* train_model is entered: running_loss, avg_loss, len_of_data are set
TrainInit ==
    /\ tpc = "epoch"
    /\ tcfg \in TrainConfigs
    /\ epoch = 0
    /\ consumed = 0
    /\ vconsumed = 0
    /\ batch_indx = Unbound
    /\ vbatch_indx = Unbound
    /\ training \in BOOLEAN
    /\ grads = "stale"
    /\ opt_steps = 0
    /\ backwards = 0
    /\ sched_steps = 0
    /\ metric = {}
    /\ train_f1_score = {}
    /\ valid_f1_score = {}
    /\ traised = NoErr

\* for epoch in range(num_epochs): model.train(); running_loss = 0.0
ModelTrain ==
    /\ tpc = "epoch"
    /\ epoch < tcfg.num_epochs
    /\ training' = ModelTrainMode
    /\ consumed' = 0
    /\ tpc' = "batch"
    /\ UNCHANGED <<tcfg, epoch, vconsumed, batch_indx, vbatch_indx, grads, opt_steps,
                   backwards, sched_steps, metric, train_f1_score, valid_f1_score,
                   traised>>
    /\ UNCHANGED <<netvars, blockvars>>

\* the for loop over epochs is exhausted: train_model returns
Return ==
    /\ tpc = "epoch"
    /\ epoch >= tcfg.num_epochs
    /\ tpc' = "done"
    /\ UNCHANGED <<tcfg, epoch, consumed, vconsumed, batch_indx, vbatch_indx, training,
                   grads, opt_steps, backwards, sched_steps, metric, train_f1_score,
                   valid_f1_score, traised>>
    /\ UNCHANGED <<netvars, blockvars>>

\* the next training batch is taken; optimizer.zero_grad()
ZeroGrad ==
    /\ tpc = "batch"
    /\ consumed < tcfg.len_train
    /\ batch_indx' = consumed
    /\ grads' = "zero"
    /\ tpc' = "forward"
    /\ UNCHANGED <<tcfg, epoch, consumed, vconsumed, vbatch_indx, training, opt_steps,
                   backwards, sched_steps, metric, train_f1_score, valid_f1_score,
                   traised>>
    /\ UNCHANGED <<netvars, blockvars>>

\* out = model(input)
TrainForward ==
    /\ tpc = "forward"
    /\ tpc' = "backward"
    /\ UNCHANGED <<tcfg, epoch, consumed, vconsumed, batch_indx, vbatch_indx, training,
                   grads, opt_steps, backwards, sched_steps, metric, train_f1_score,
                   valid_f1_score, traised>>
    /\ UNCHANGED <<netvars, blockvars>>

\* loss = loss_fn(out, labels); loss.backward()
Backward ==
    /\ tpc = "backward"
    /\ grads' = "fresh"
    /\ backwards' = backwards + 1
    /\ tpc' = "update"
    /\ UNCHANGED <<tcfg, epoch, consumed, vconsumed, batch_indx, vbatch_indx, training,
                   opt_steps, sched_steps, metric, train_f1_score, valid_f1_score,
                   traised>>
    /\ UNCHANGED <<netvars, blockvars>>

\* metric.update(out, labels) on a training batch
TrainMetricUpdate ==
    /\ tpc = "update"
    /\ metric' = MetricUpdate(metric, Sample(epoch, "train", batch_indx))
    /\ tpc' = "step"
    /\ UNCHANGED <<tcfg, epoch, consumed, vconsumed, batch_indx, vbatch_indx, training,
                   grads, opt_steps, backwards, sched_steps, train_f1_score,
                   valid_f1_score, traised>>
    /\ UNCHANGED <<netvars, blockvars>>

\* optimizer.step(); running_loss += loss.item()
OptimizerStep ==
    /\ tpc = "step"
    /\ opt_steps' = opt_steps + 1
    /\ grads' = "applied"
    /\ consumed' = consumed + 1
    /\ tpc' = "batch"
    /\ UNCHANGED <<tcfg, epoch, vconsumed, batch_indx, vbatch_indx, training, backwards,
                   sched_steps, metric, train_f1_score, valid_f1_score, traised>>
    /\ UNCHANGED <<netvars, blockvars>>

\* avg_loss = running_loss / (batch_indx + 1); metric.compute(); metric.reset()
TrainMetric ==
    /\ tpc = "batch"
    /\ consumed >= tcfg.len_train
    /\ IF batch_indx = Unbound
       THEN /\ traised' = "UnboundLocalError"
            /\ tpc' = "failed"
            /\ UNCHANGED <<metric, train_f1_score>>
       ELSE /\ train_f1_score' = MetricCompute(metric)
            /\ metric' = TrainMetricReset(metric)
            /\ tpc' = "scheduler"
            /\ UNCHANGED traised
    /\ UNCHANGED <<tcfg, epoch, consumed, vconsumed, batch_indx, vbatch_indx, training,
                   grads, opt_steps, backwards, sched_steps, valid_f1_score>>
    /\ UNCHANGED <<netvars, blockvars>>

\* if scheduler: scheduler.step()
SchedulerStep ==
    /\ tpc = "scheduler"
    /\ sched_steps' = IF tcfg.scheduler THEN sched_steps + 1 ELSE sched_steps
    /\ tpc' = "eval"
    /\ UNCHANGED <<tcfg, epoch, consumed, vconsumed, batch_indx, vbatch_indx, training,
                   grads, opt_steps, backwards, metric, train_f1_score, valid_f1_score,
                   traised>>
    /\ UNCHANGED <<netvars, blockvars>>

\* model.eval(); running_vloss = 0.0
ModelEval ==
    /\ tpc = "eval"
    /\ training' = ModelEvalMode
    /\ vconsumed' = 0
    /\ tpc' = "vbatch"
    /\ UNCHANGED <<tcfg, epoch, consumed, batch_indx, vbatch_indx, grads, opt_steps,
                   backwards, sched_steps, metric, train_f1_score, valid_f1_score,
                   traised>>
    /\ UNCHANGED <<netvars, blockvars>>

\* one validation batch under torch.no_grad(): forward, loss, metric.update
ValidationBatch ==
    /\ tpc = "vbatch"
    /\ vconsumed < tcfg.len_val
    /\ vbatch_indx' = vconsumed
    /\ metric' = MetricUpdate(metric, Sample(epoch, "valid", vconsumed))
    /\ vconsumed' = vconsumed + 1
    /\ UNCHANGED <<tpc, tcfg, epoch, consumed, batch_indx, training, grads, opt_steps,
                   backwards, sched_steps, train_f1_score, valid_f1_score, traised>>
    /\ UNCHANGED <<netvars, blockvars>>

\* avg_vloss = running_vloss / (vbatch_indx + 1); valid_f1_score = metric.compute()
ValidMetric ==
    /\ tpc = "vbatch"
    /\ vconsumed >= tcfg.len_val
    /\ IF vbatch_indx = Unbound
       THEN /\ traised' = "UnboundLocalError"
            /\ tpc' = "failed"
            /\ UNCHANGED valid_f1_score
       ELSE /\ valid_f1_score' = MetricCompute(metric)
            /\ tpc' = "report"
            /\ UNCHANGED traised
    /\ UNCHANGED <<tcfg, epoch, consumed, vconsumed, batch_indx, vbatch_indx, training,
                   grads, opt_steps, backwards, sched_steps, metric, train_f1_score>>
    /\ UNCHANGED <<netvars, blockvars>>

\* print(...); metric.reset(); the epoch ends
Report ==
    /\ tpc = "report"
    /\ metric' = ValidMetricReset(metric)
    /\ epoch' = epoch + 1
    /\ tpc' = "epoch"
    /\ UNCHANGED <<tcfg, consumed, vconsumed, batch_indx, vbatch_indx, training, grads,
                   opt_steps, backwards, sched_steps, train_f1_score, valid_f1_score,
                   traised>>
    /\ UNCHANGED <<netvars, blockvars>>

\* ----------------------------------------------------- specifications
\* Nothing constructed, train_model not called.
Init == NetInit /\ BlockInit /\ TrainIdle

\* Nothing constructed, train_model entered.
InitTrain == NetInit /\ BlockInit /\ TrainInit

StageWidthArgs == {StageWidths[k] : k \in 1..4}
StrideArgs == 1..2
BlockArgs == {Basic, Deep, Custom}

\* The constructor with the default layers argument, one per block class.
DefaultArgs ==
    [in_channels : {3}, num_classes : 1..MaxClasses, layers : {<<2, 2, 2, 2>>},
     block : BlockArgs]

\* Construction over all arguments, valid or not.
BuildNext ==
    \/ \E a \in AllArgs : Construct(a)
    \/ BuildLayer
    \/ BuildFc

SpecBuild == Init /\ [][BuildNext]_vars

\* Construction from supported arguments, then forward passes.
ForwardNext ==
    \/ \E a \in SupportedArgs : Construct(a)
    \/ BuildLayer
    \/ BuildFc
    \/ \E mode \in BOOLEAN : SetMode(mode)
    \/ \E n \in 1..MaxBatch, h \in Sides, w \in Sides : TestTensor(n, h, w)
    \/ Forward

SpecForward == Init /\ [][ForwardNext]_vars

\* Construction with the default layers, then calls of create_residual_layer.
LayerNext ==
    \/ \E a \in DefaultArgs : Construct(a)
    \/ BuildLayer
    \/ BuildFc
    \/ \E c \in StageWidthArgs, n \in BlockCounts, s \in StrideArgs :
          CallCreateResidualLayer(c, n, s)

SpecLayer == Init /\ [][LayerNext]_vars

\* A block constructed and called on its own.
BlockNext ==
    \/ \E k \in {Basic, Deep}, cin \in 1..MaxBlockChannels, cout \in 1..MaxBlockChannels,
          s \in 1..MaxBlockStride, p \in BOOLEAN : ConstructBlock(k, cin, cout, s, p)
    \/ \E mode \in BOOLEAN : SetMode(mode)
    \/ \E n \in 1..MaxBatch, h \in 1..MaxBlockSide, w \in 1..MaxBlockSide :
          InvokeBlock(n, h, w)

SpecBlock == Init /\ [][BlockNext]_vars

\* train_model from entry to return.
TrainNext ==
    \/ ModelTrain
    \/ Return
    \/ ZeroGrad
    \/ TrainForward
    \/ Backward
    \/ TrainMetricUpdate
    \/ OptimizerStep
    \/ TrainMetric
    \/ SchedulerStep
    \/ ModelEval
    \/ ValidationBatch
    \/ ValidMetric
    \/ Report

SpecTrain == InitTrain /\ [][TrainNext]_vars

\* ------------------------------------------------------------- claims
\* Arguments the constructor is specified to accept.
ValidArgs(a) ==
    /\ a.block \in {Basic, Deep}
    /\ a.in_channels >= 1
    /\ a.num_classes >= 1
    /\ Len(a.layers) = 4
    /\ \A i \in 1..Len(a.layers) : a.layers[i] >= 1

Last(q) == q[Len(q)]

ForwardDone == out # NoTensor

\* C1: for every valid construction and every input (N, input_channels, H, W)
\* with N >= 1 and H, W >= 32, forward returns a result of shape exactly
\* (N, num_classes), for N = 1 too.  Stated for the passes that return: a pass
\* that the numeric library aborts is not held against the claim.
C1_ForwardShape ==
    (ForwardDone /\ ValidArgs(args) /\ xin[3] >= 32 /\ xin[4] >= 32 /\ out.err = NoErr)
        => out.shape = <<xin[1], args.num_classes>>

\* C2: in every network built from supported arguments the classifier's input
\* width is the channel count the last block of stage 4 produces: 2048 for the
\* Deep variant, 512 for the Basic variant.
C2_ClassifierWidth ==
    (netpc = "built" /\ ValidArgs(args))
        => /\ fc.fin = BlockOutChannels(Last(stages[4]))
           /\ fc.fin = (IF args.block = Deep THEN 2048 ELSE 512)

C2_Witness ==
    /\ netpc = "built"
    /\ ValidArgs(args)
    /\ args.block = Deep
    /\ args.layers = <<1, 2, 1, 2>>
    /\ fc.fin = 2048

\* C3: in every forward pass of a network built from supported arguments, on
\* any input with H, W >= 1, at every merge that is executed the identity path
\* (after the optional projection) has exactly the shape of the main path's
\* output, no shape mismatch is raised, and a pass that returns has gone
\* through the merge of every block of every stage.
C3_MergeShapesEqual ==
    (ForwardDone /\ ValidArgs(args))
        => /\ out.err # "ShapeMismatch"
           /\ out.err = NoErr =>
                 Len(merges) = args.layers[1] + args.layers[2] + args.layers[3]
                               + args.layers[4]
           /\ \A i \in 1..Len(merges) :
                /\ merges[i].main.err = NoErr
                /\ merges[i].identity.err = NoErr
                /\ merges[i].identity.shape = merges[i].main.shape

C3_Witness ==
    /\ ForwardDone
    /\ args.block = Deep
    /\ args.layers = <<2, 1, 2, 1>>
    /\ xin[3] = 1
    /\ xin[4] = 33
    /\ out.err = NoErr
    /\ Len(merges) = 6
    /\ merges[1].identity.shape = <<xin[1], 256, 1, 9>>

\* C4: in every network built from supported arguments, the first block of each
\* stage takes as many input channels as the last block of the previous stage
\* produces (64 from the stem for stage 1), and the stages are built in the
\* order 64, 128, 256, 512 with strides 1, 2, 2, 2.
C4_ChannelContinuity ==
    ValidArgs(args) =>
        \A k \in 1..Len(stages) :
            /\ stages[k][1].cin = (IF k = 1 THEN 64
                                   ELSE BlockOutChannels(Last(stages[k - 1])))
            /\ stages[k][1].cout = <<64, 128, 256, 512>>[k]
            /\ stages[k][1].stride = <<1, 2, 2, 2>>[k]

C4_Witness ==
    /\ netpc = "built"
    /\ args.block = Basic
    /\ args.layers = <<2, 2, 2, 2>>
    /\ stages[4][1].cin = 256
    /\ stages[2][1].cin = 64

\* C5: a Basic or Deep block constructed without a projection, with stride != 1
\* or with an input channel count other than out_channels * expansion, fails
\* at the merge whenever it is called, on every input shape: it never returns
\* a result.
C5_NoProjectionFails ==
    (bout # NoTensor /\ ~blk.proj.present
       /\ (blk.stride # 1 \/ blk.cin # blk.cout * Expansion(blk.kind)))
        => bout.err # NoErr

\* C6: constructing a ResNet from invalid arguments (a layers list whose length
\* is not 4, a block count < 1, a block class that is neither Basic nor Deep)
\* fails during construction: no network is produced.
C6_InvalidArgsRejected ==
    (args # NoArgs /\ ~ValidArgs(args)) => netpc # "built"

\* C7: for both variants and every call of create_residual_layer, the first
\* block of the stage has a projection if and only if stride != 1 or the stage's
\* input channel count differs from out_channels * expansion.
C7_ProjectionIff ==
    (call # NoCall /\ call.block \in {Basic, Deep} /\ call.num_residual_blocks >= 1)
        => (layer[1].proj.present
              <=> (call.stride # 1
                   \/ layer[1].cin # call.out_channels * Expansion(call.block)))

\* C8: a stage built by create_residual_layer with block count n >= 1 holds
\* exactly n blocks, and every block after the first has stride 1, no
\* projection, and as many input channels as it has output channels
\* (out_channels * expansion), for both variants.
C8_StageBlocks ==
    (call # NoCall /\ call.block \in {Basic, Deep} /\ call.num_residual_blocks >= 1)
        => /\ Len(layer) = call.num_residual_blocks
           /\ \A i \in 2..Len(layer) :
                /\ layer[i].stride = 1
                /\ ~layer[i].proj.present
                /\ layer[i].cout = call.out_channels
                /\ layer[i].cin = call.out_channels * Expansion(call.block)
                /\ layer[i].cin = BlockOutChannels(layer[i])

C8_Witness ==
    /\ call # NoCall
    /\ call.block = Deep
    /\ call.num_residual_blocks = 2
    /\ call.out_channels = 128
    /\ Len(layer) = 2
    /\ layer[2].cin = 512

\* C9: after each call of create_residual_layer, for either variant,
\* self.in_channels is out_channels * expansion of the stage just built, and
\* after the four stages it is 512 for Basic and 2048 for Deep.
C9_RunningInChannels ==
    (call # NoCall /\ ValidArgs(args))
        => /\ in_channels = call.out_channels * Expansion(call.block)
           /\ netpc = "built" => in_channels = (IF args.block = Deep THEN 2048 ELSE 512)

C10_Applies == tcfg.num_epochs >= 1 /\ tcfg.len_train >= 1 /\ tcfg.len_val >= 1

C10_State ==
    C10_Applies =>
        /\ tpc \in {"forward", "backward", "update", "step"} => training
        /\ tpc \in {"vbatch", "report"} => ~training
        /\ tpc = "step" => grads = "fresh"
        /\ tpc = "report" =>
              valid_f1_score = {Sample(epoch, "valid", b) : b \in 0..(tcfg.len_val - 1)}
        /\ tpc = "done" => /\ opt_steps = tcfg.num_epochs * tcfg.len_train
                           /\ traised = NoErr

C10_Step ==
    C10_Applies =>
        /\ opt_steps' # opt_steps => training /\ grads = "fresh" /\ tpc = "step"
        /\ backwards' # backwards => training /\ grads = "zero"
        /\ ~training => opt_steps' = opt_steps /\ backwards' = backwards
        /\ training' # training =>
              \/ tpc = "epoch" /\ training'
              \/ tpc = "eval" /\ ~training' /\ metric = {}

\* C10: with num_epochs >= 1 and non-empty loaders every epoch of train_model
\* runs train mode, then zero_grad -> forward -> backward -> step per training
\* batch, then the metric is computed and reset, then eval mode and the
\* validation batches: every optimizer step and backward happens in train mode,
\* none during validation, num_epochs * len(train_loader) steps happen in all,
\* and an epoch's validation F1 is computed from that epoch's validation
\* predictions only.
C10_TrainLoopOrder == []C10_State /\ [][C10_Step]_vars

C10_Witness ==
    /\ tpc = "done"
    /\ tcfg.num_epochs = 2
    /\ tcfg.len_train = 2
    /\ tcfg.len_val = 2
    /\ opt_steps = 4
    /\ valid_f1_score = {Sample(1, "valid", 0), Sample(1, "valid", 1)}

====
